---- MODULE Spec2Model ----
(***************************************************************************)
(* Predictor (tframe/models/sl/predictor.py): construction, the build      *)
(* protocol (target / loss / metric / train step wiring), the per-batch    *)
(* update of the recurrent variant and the read-only evaluation paths.     *)
(*                                                                         *)
(* Tensors are tuples of strings; <<>> is Python's None.  Rows of the      *)
(* state buffer are numbered 1..n here (Python's 0..n-1).  Python          *)
(* assertions are taken as enabled (the interpreter's default mode).       *)
(***************************************************************************)
EXTENDS Integers, Sequences, FiniteSets, TLC

VARIABLES
  hub,            \* process-wide flags read by the Predictor
  constructed,    \* a Predictor object exists
  master,         \* self.master
  parentInit,     \* net_type.__init__ has run
  slots,          \* slot object name -> plugged tensor (None: unplugged)
  slotsCreated,   \* the slot objects that exist
  valRef,         \* the slot object the attribute _val_targets refers to
  placeholders,   \* the placeholders created in the graph
  feedCollection, \* the collection pedia.default_feed_dict
  summaries,      \* scalar summaries added to the collections
  trainStep,      \* _define_train_step has run
  lossPlugs,      \* number of plug calls made on the loss slot
  built,          \* "no" | "ok" | "failed"
  args,           \* the arguments of the build call in progress
  pc,             \* position inside build / update_model
  stateArray,     \* self._state_array (None before the first reset)
  gradBuf,        \* self._gradient_buffer_array, abstracted
  batch,          \* the batch of the update_model call in progress
  feed,           \* the state entry of the feed dict handed to the run
  state0,         \* _state_array when the update_model call began
  events,         \* what the current (or last) call did, in order
  lastOp,         \* the last public operation called
  netType,        \* the net_type argument of the last constructor call
  evalFlags,      \* reset flags of the batch a predict / evaluate_model fed last
  error           \* how it ended: "none" or the exception raised

vars == <<hub, constructed, master, parentInit, slots, slotsCreated, valRef,
          placeholders, feedCollection, summaries, trainStep, lossPlugs,
          built, args, pc, stateArray, gradBuf, batch, feed, state0, events,
          lastOp, netType, evalFlags, error>>

----------------------------------------------------------------------------
(* Bounds *)

MaxBatch == 2

\* values of a row of the state buffer: zero and a non-zero value
Vals == {0, 1}
Sizes == 1..MaxBatch

None == <<>>

NetTypes == {"Feedforward", "Recurrent", "Model"}
LossIds == {"euclid", "cross_entropy"}
MetricIds == {"None", "rms_ratio"}
ValTargetArgs == {"None", "val_targets_name", "not_a_str"}
\* the shape list of the outputs the forward build produces
Shapes == {"[None,10]"}

SlotNames == {"outputs", "targets", "val_targets", "loss", "metric"}
ParentSlots == {"outputs", "loss", "metric"}
OwnSlots == {"targets", "val_targets"}

\* optimizer, metric_is_like_loss and metric_name are handed on unread
BuildArgs == [loss : LossIds, metric : MetricIds, val_targets : ValTargetArgs]

NoArgs == [loss |-> "None", metric |-> "None", val_targets |-> "None"]

NoBatch ==
  [size |-> 0, should_reset_state |-> FALSE,
   should_partially_reset_state |-> FALSE, reset_batch_indices |-> {},
   values_none |-> TRUE, reset_values |-> <<>>]

\* The batches a data source can supply: reset indices name rows of the batch.
Batches ==
  UNION {
    UNION {
      [size : {n}, should_reset_state : BOOLEAN,
       should_partially_reset_state : BOOLEAN, reset_batch_indices : {I},
       values_none : {TRUE}, reset_values : {[i \in I |-> 0]}]
      \cup
      [size : {n}, should_reset_state : BOOLEAN,
       should_partially_reset_state : BOOLEAN, reset_batch_indices : {I},
       values_none : {FALSE}, reset_values : [I -> Vals]]
      : I \in SUBSET (1..n)}
    : n \in Sizes}

----------------------------------------------------------------------------
(* Slots *)

Activated(s) == slots[s] # None

Plug(sl, name, op) == [sl EXCEPT ![name] = op]

Placeholder(name, shape) == <<"placeholder", name, shape>>

ShapeOf(t) == t[Len(t)]

\* the slot the attribute self._val_targets denotes
ValTargetsTensor == slots[valRef]

Count(seq, e) == Cardinality({i \in 1..Len(seq) : seq[i] = e})

Index(seq, e) ==
  IF \E i \in 1..Len(seq) : seq[i] = e
    THEN CHOOSE i \in 1..Len(seq) :
           seq[i] = e /\ \A j \in 1..(i - 1) : seq[j] # e
    ELSE 0

Before(seq, a, b) == Index(seq, a) > 0 /\ Index(seq, a) < Index(seq, b)

----------------------------------------------------------------------------
(* Construction *)

\* __init__ without the test of net_type
RecognizedMutAny(net_type) == TRUE

\* __init__, line 37
Recognized(net_type) == net_type \in {"Feedforward", "Recurrent"}

Init ==
  /\ hub \in [summary : BOOLEAN, use_rtrl : BOOLEAN]
  /\ constructed = FALSE
  /\ master = "None"
  /\ parentInit = FALSE
  /\ slots = [s \in SlotNames |-> None]
  /\ slotsCreated = {}
  /\ valRef = "val_targets"
  /\ placeholders = {}
  /\ feedCollection = {}
  /\ summaries = {}
  /\ trainStep = FALSE
  /\ lossPlugs = 0
  /\ built = "no"
  /\ args = NoArgs
  /\ pc = "idle"
  /\ stateArray = None
  /\ gradBuf = "none"
  /\ batch = NoBatch
  /\ feed = None
  /\ state0 = None
  /\ events = <<>>
  /\ lastOp = "none"
  /\ netType = "None"
  /\ evalFlags = <<FALSE, FALSE>>
  /\ error = "none"

\* Predictor.__init__: a fresh object replaces the previous one
Construct(net_type) ==
  /\ pc = "idle"
  /\ lastOp' = "construct"
  /\ netType' = net_type
  /\ evalFlags' = <<FALSE, FALSE>>
  /\ slots' = [s \in SlotNames |-> None]
  /\ valRef' = "val_targets"
  /\ placeholders' = {}
  /\ feedCollection' = {}
  /\ summaries' = {}
  /\ trainStep' = FALSE
  /\ lossPlugs' = 0
  /\ built' = "no"
  /\ args' = NoArgs
  /\ stateArray' = None
  /\ gradBuf' = "none"
  /\ batch' = NoBatch
  /\ feed' = None
  /\ state0' = None
  /\ IF ~Recognized(net_type)
       THEN /\ error' = "TypeError"
            /\ events' = <<"raise">>
            /\ constructed' = FALSE
            /\ master' = "None"
            /\ parentInit' = FALSE
            /\ slotsCreated' = {}
       ELSE /\ error' = "none"
            /\ events' = <<"set_master", "parent_init", "create_slots">>
            /\ constructed' = TRUE
            /\ master' = net_type
            /\ parentInit' = TRUE
            /\ slotsCreated' = ParentSlots \cup OwnSlots
  /\ UNCHANGED <<hub, pc>>

----------------------------------------------------------------------------
(* Build *)

\* _plug_target_in(shape), applied to a build context c
PlugTargetIn(c, shape) ==
  [c EXCEPT
     !.slots = Plug(c.slots, "targets", Placeholder("targets", shape)),
     !.placeholders = @ \cup {Placeholder("targets", shape)},
     !.feedCollection = @ \cup {Placeholder("targets", shape)},
     !.events = @ \o <<"placeholder_targets", "plug_targets">>]

\* _build, lines 80-86, with the target plugged before the assertion
BuildForwardMutPlugFirst(c, act, shape) ==
  LET c1 == [c EXCEPT
               !.slots = IF act THEN Plug(@, "outputs", <<"outputs", shape>>)
                                ELSE @,
               !.events = @ \o <<"forward_build">>]
      c2 == PlugTargetIn(c1, shape)
  IN  IF ~act
        THEN [c2 EXCEPT !.error = "AssertionError",
                        !.events = @ \o <<"raise">>]
        ELSE c2

\* _build, lines 80-86: the delegated forward build has plugged the outputs
\* slot (act) or has not; then the assertion and the target placeholder
BuildForwardPart(c, act, shape) ==
  LET c1 == [c EXCEPT
               !.slots = IF act THEN Plug(@, "outputs", <<"outputs", shape>>)
                                ELSE @,
               !.events = @ \o <<"forward_build">>]
  IN  IF c1.slots["outputs"] = None
        THEN [c1 EXCEPT !.error = "AssertionError",
                        !.events = @ \o <<"raise">>]
        ELSE PlugTargetIn(c1, ShapeOf(c1.slots["outputs"]))

\* _build, lines 91-96: the tensor the loss function is applied to
LossOutputMutActivated(loss, logits_tensor, outputs_tensor) == outputs_tensor

LossOutput(loss, logits_tensor, outputs_tensor) ==
  IF loss = "cross_entropy" THEN logits_tensor ELSE outputs_tensor

\* _build, lines 88-106, with the plug inside the regularization branch
BuildLossMutPlugInIf(c, a, logits_tensor, reg_loss) ==
  LET out == LossOutput(a.loss, logits_tensor, c.slots["outputs"])
      c1 == [c EXCEPT
               !.events = @ \o <<"losses.get">>
                            \o (IF a.loss = "cross_entropy"
                                  THEN <<"logits_tensor">> ELSE <<>>)]
  IN  IF a.loss = "cross_entropy" /\ out = None
        THEN [c1 EXCEPT !.error = "AssertionError",
                        !.events = @ \o <<"raise">>]
        ELSE
          LET c2 == [c1 EXCEPT
                       !.events = @ \o <<"loss_function">>,
                       !.summaries = IF hub.summary THEN @ \cup {"loss_sum"}
                                                    ELSE @]
          IN  IF reg_loss
                THEN [c2 EXCEPT
                        !.slots = Plug(@, "loss",
                                       <<"loss", a.loss, "targets", out[1],
                                         "reg">>),
                        !.lossPlugs = @ + 1,
                        !.events = @ \o <<"add_reg", "plug_loss">>]
                ELSE c2

\* _build, lines 88-106; logits_tensor and reg_loss are read from the net
BuildLossPart(c, a, logits_tensor, reg_loss) ==
  LET out == LossOutput(a.loss, logits_tensor, c.slots["outputs"])
      c1 == [c EXCEPT
               !.events = @ \o <<"losses.get">>
                            \o (IF a.loss = "cross_entropy"
                                  THEN <<"logits_tensor">> ELSE <<>>)]
  IN  IF a.loss = "cross_entropy" /\ out = None
        THEN [c1 EXCEPT !.error = "AssertionError",
                        !.events = @ \o <<"raise">>]
        ELSE
          LET c2 == [c1 EXCEPT
                       !.events = @ \o <<"loss_function">>,
                       !.summaries = IF hub.summary THEN @ \cup {"loss_sum"}
                                                    ELSE @]
              c3 == IF reg_loss
                      THEN [c2 EXCEPT !.events = @ \o <<"add_reg">>]
                      ELSE c2
          IN  [c3 EXCEPT
                 !.slots = Plug(@, "loss",
                                <<"loss", a.loss, "targets", out[1],
                                  IF reg_loss THEN "reg" ELSE "noreg">>),
                 !.lossPlugs = @ + 1,
                 !.events = @ \o <<"plug_loss">>]

\* _plug_val_target_in with a placeholder created in both branches
PlugValTargetInMutAlwaysNew(c, val_targets) ==
  LET ph == Placeholder(IF val_targets = "None" THEN "val_targets"
                                                ELSE val_targets,
                        ShapeOf(c.slots["outputs"]))
  IN  [c EXCEPT !.slots = Plug(@, c.valRef, ph),
                !.placeholders = @ \cup {ph},
                !.feedCollection = @ \cup {ph},
                !.events = @ \o <<"placeholder_val_targets",
                                  "plug_val_targets">>]

\* _plug_val_target_in(val_targets)
PlugValTargetIn(c, val_targets) ==
  IF val_targets = "None"
    THEN [c EXCEPT !.valRef = "targets",
                   !.events = @ \o <<"alias_val_targets">>]
    ELSE IF val_targets = "not_a_str"
      THEN [c EXCEPT !.error = "AssertionError",
                     !.events = @ \o <<"raise">>]
      ELSE
        LET ph == Placeholder(val_targets, ShapeOf(c.slots["outputs"]))
        IN  [c EXCEPT !.slots = Plug(@, c.valRef, ph),
                      !.placeholders = @ \cup {ph},
                      !.feedCollection = @ \cup {ph},
                      !.events = @ \o <<"placeholder_val_targets",
                                        "plug_val_targets">>]

\* _build, lines 108-122
BuildMetricPart(c, a) ==
  IF a.metric = "None"
    THEN c
    ELSE
      LET c1 == PlugValTargetIn(c, a.val_targets)
      IN  IF c1.error # "none"
            THEN c1
            ELSE
              LET vt == c1.slots[c1.valRef]
                  mt == <<"metric", a.metric, vt[2], "outputs">>
              IN  [c1 EXCEPT
                     !.slots = Plug(@, "metric", mt),
                     !.events = @ \o <<"metrics.get", "metric_function",
                                       "plug_metric">>,
                     !.summaries = IF hub.summary THEN @ \cup {"metric_sum"}
                                                  ELSE @]

\* the part of the object a build step reads and writes
Ctx ==
  [slots |-> slots, valRef |-> valRef, placeholders |-> placeholders,
   feedCollection |-> feedCollection, summaries |-> summaries,
   lossPlugs |-> lossPlugs, events |-> events, error |-> "none"]

Store(c, nextpc) ==
  /\ slots' = c.slots
  /\ valRef' = c.valRef
  /\ placeholders' = c.placeholders
  /\ feedCollection' = c.feedCollection
  /\ summaries' = c.summaries
  /\ lossPlugs' = c.lossPlugs
  /\ events' = c.events
  /\ error' = c.error
  /\ IF c.error # "none"
       THEN pc' = "idle" /\ built' = "failed" /\ args' = NoArgs
       ELSE pc' = nextpc /\ UNCHANGED <<built, args>>

\* build -> Model.build -> _build, up to the target placeholder.  A
\* Predictor is built once; a further model is a further Predictor.
BuildForward(a, act, shape) ==
  /\ pc = "idle"
  /\ constructed
  /\ built = "no"
  /\ lastOp' = "build"
  /\ LET c == BuildForwardPart([Ctx EXCEPT !.events = <<>>], act, shape)
     IN  /\ slots' = c.slots
         /\ valRef' = c.valRef
         /\ placeholders' = c.placeholders
         /\ feedCollection' = c.feedCollection
         /\ summaries' = c.summaries
         /\ lossPlugs' = c.lossPlugs
         /\ events' = c.events
         /\ error' = c.error
         /\ IF c.error # "none"
              THEN pc' = "idle" /\ built' = "failed" /\ args' = NoArgs
              ELSE pc' = "build_loss" /\ args' = a /\ UNCHANGED built
  /\ UNCHANGED <<hub, constructed, master, parentInit, slotsCreated,
                 trainStep, stateArray, gradBuf, batch, feed, state0,
                 netType, evalFlags>>

BuildLoss(logits_present, reg_loss) ==
  /\ pc = "build_loss"
  /\ Store(BuildLossPart(Ctx, args,
                         IF logits_present THEN <<"logits">> ELSE None,
                         reg_loss),
           "build_metric")
  /\ UNCHANGED <<hub, constructed, master, parentInit, slotsCreated,
                 trainStep, stateArray, gradBuf, batch, feed, state0, lastOp, netType,
                 evalFlags>>

BuildMetric ==
  /\ pc = "build_metric"
  /\ Store(BuildMetricPart(Ctx, args), "build_train")
  /\ UNCHANGED <<hub, constructed, master, parentInit, slotsCreated,
                 trainStep, stateArray, gradBuf, batch, feed, state0, lastOp, netType,
                 evalFlags>>

\* _build, lines 124-128
BuildTrainStep ==
  /\ pc = "build_train"
  /\ events' = events \o <<"merge_summaries", "define_train_step">>
  /\ trainStep' = TRUE
  /\ built' = "ok"
  /\ args' = NoArgs
  /\ pc' = "idle"
  /\ UNCHANGED <<hub, constructed, master, parentInit, slots, slotsCreated,
                 valRef, placeholders, feedCollection, summaries, lossPlugs,
                 stateArray, gradBuf, batch, feed, state0, lastOp, netType,
                 evalFlags, error>>

----------------------------------------------------------------------------
(* Recurrent state buffer *)

ZeroState(size) == [i \in 1..size |-> 0]

\* Recurrent.reset_buffers(batch_size), applied to a run context r
ResetBuffers(r, size) ==
  [r EXCEPT !.stateArray = ZeroState(size),
            !.gradBuf = IF hub.use_rtrl THEN "zero" ELSE @,
            !.events = @ \o <<"reset_buffers">>]

\* Recurrent.reset_part_buffer(indices, values)
ResetPartBuffer(r, indices, values_none, values) ==
  [r EXCEPT
     !.stateArray =
        [i \in 1..Len(r.stateArray) |->
           IF i \in indices
             THEN (IF values_none THEN 0 ELSE values[i])
             ELSE r.stateArray[i]],
     !.events = @ \o <<"reset_part_buffer">>]

\* Recurrent._get_rnn_dict(batch_size); size 0 stands for None
GetRnnDict(r, batch_size) ==
  [r EXCEPT !.feed = IF batch_size = 0 THEN r.stateArray
                                       ELSE ZeroState(batch_size),
            !.events = @ \o <<"get_rnn_dict">>]

\* _get_default_feed_dict with the rnn dict built before the resets
GetDefaultFeedDictMutFeedFirst(r, b, is_training) ==
  LET r0 == [r EXCEPT !.events = @ \o <<"base_feed_dict">>]
  IN  IF master = "Recurrent"
        THEN
          LET r3 == GetRnnDict(r0, IF is_training THEN 0 ELSE b.size)
              r1 == IF is_training /\ b.should_reset_state
                      THEN ResetBuffers(r3, b.size)
                      ELSE r3
          IN  IF is_training /\ b.should_partially_reset_state
                THEN ResetPartBuffer(r1, b.reset_batch_indices,
                                     b.values_none, b.reset_values)
                ELSE r1
        ELSE r0

\* _get_default_feed_dict with the partial reset in an elif branch
GetDefaultFeedDictMutElif(r, b, is_training) ==
  LET r0 == [r EXCEPT !.events = @ \o <<"base_feed_dict">>]
  IN  IF master = "Recurrent"
        THEN
          LET r1 == IF is_training /\ b.should_reset_state
                      THEN ResetBuffers(r0, b.size)
                      ELSE IF is_training /\ b.should_partially_reset_state
                        THEN ResetPartBuffer(r0, b.reset_batch_indices,
                                             b.values_none, b.reset_values)
                        ELSE r0
          IN  GetRnnDict(r1, IF is_training THEN 0 ELSE b.size)
        ELSE r0

\* _get_default_feed_dict with a full reset taken on the partial flag too
GetDefaultFeedDictMutFullOnPartial(r, b, is_training) ==
  LET r0 == [r EXCEPT !.events = @ \o <<"base_feed_dict">>]
  IN  IF master = "Recurrent"
        THEN
          LET r1 == IF is_training /\ (b.should_reset_state
                                       \/ b.should_partially_reset_state)
                      THEN ResetBuffers(r0, b.size)
                      ELSE r0
              r2 == IF is_training /\ b.should_partially_reset_state
                      THEN ResetPartBuffer(r1, b.reset_batch_indices,
                                           b.values_none, b.reset_values)
                      ELSE r1
          IN  GetRnnDict(r2, IF is_training THEN 0 ELSE b.size)
        ELSE r0

\* _get_default_feed_dict without the is_training test
GetDefaultFeedDictMutNoTrainingTest(r, b, is_training) ==
  LET r0 == [r EXCEPT !.events = @ \o <<"base_feed_dict">>]
  IN  IF master = "Recurrent"
        THEN
          LET r1 == IF b.should_reset_state
                      THEN ResetBuffers(r0, b.size)
                      ELSE r0
              r2 == IF b.should_partially_reset_state /\ r1.stateArray # None
                      THEN ResetPartBuffer(r1, b.reset_batch_indices,
                                           b.values_none, b.reset_values)
                      ELSE r1
          IN  GetRnnDict(r2, IF is_training THEN 0 ELSE b.size)
        ELSE r0

\* Predictor._get_default_feed_dict(batch, is_training).  The console lines
\* under hub.notify_when_reset change nothing the Predictor holds.
GetDefaultFeedDict(r, b, is_training) ==
  LET r0 == [r EXCEPT !.events = @ \o <<"base_feed_dict">>]
  IN  IF master = "Recurrent"
        THEN
          LET r1 == IF is_training /\ b.should_reset_state
                      THEN ResetBuffers(r0, b.size)
                      ELSE r0
              r2 == IF is_training /\ b.should_partially_reset_state
                      THEN ResetPartBuffer(r1, b.reset_batch_indices,
                                           b.values_none, b.reset_values)
                      ELSE r1
          IN  GetRnnDict(r2, IF is_training THEN 0 ELSE b.size)
        ELSE r0

\* the part of the object feed-dict construction reads and writes
Run0 ==
  [stateArray |-> stateArray, gradBuf |-> gradBuf, feed |-> None,
   events |-> <<>>]

\* a batch the data source may hand to a training update in this state: the
\* indices and values are set only with the partial flag, and a batch that
\* continues a sequence has the rows of the live buffer
TrainBatch(b) ==
  /\ b.should_partially_reset_state
       \/ (b.reset_batch_indices = {} /\ b.values_none)
  /\ b.should_reset_state
       \/ (stateArray # None /\ Len(stateArray) = b.size)

EvalBatch(b) ==
  b.should_partially_reset_state
    \/ (b.reset_batch_indices = {} /\ b.values_none)

----------------------------------------------------------------------------
(* Train *)

\* update_model, feedforward variant: Feedforward.update_model
UpdateFeedforward(b) ==
  /\ pc = "idle"
  /\ built = "ok"
  /\ master = "Feedforward"
  /\ EvalBatch(b)
  /\ lastOp' = "update_model"
  /\ evalFlags' = <<FALSE, FALSE>>
  /\ error' = "none"
  /\ events' = <<"Feedforward.update_model">>
  /\ UNCHANGED <<hub, constructed, master, parentInit, slots, slotsCreated,
                 valRef, placeholders, feedCollection, summaries, trainStep,
                 lossPlugs, built, args, pc, stateArray, gradBuf, batch, feed,
                 state0, netType>>

\* update_model, recurrent variant, line 152: the feed dict.  Training
\* needs the train step, so it follows a build that succeeded.
UpdateBegin(b) ==
  /\ pc = "idle"
  /\ built = "ok"
  /\ master # "Feedforward"
  /\ TrainBatch(b)
  /\ LET r == GetDefaultFeedDict(Run0, b, TRUE)
     IN  /\ stateArray' = r.stateArray
         /\ gradBuf' = r.gradBuf
         /\ feed' = r.feed
         /\ events' = r.events
  /\ batch' = b
  /\ state0' = stateArray
  /\ pc' = "run"
  /\ lastOp' = "update_model"
  /\ evalFlags' = <<FALSE, FALSE>>
  /\ error' = "none"
  /\ UNCHANGED <<hub, constructed, master, parentInit, slots, slotsCreated,
                 valRef, placeholders, feedCollection, summaries, trainStep,
                 lossPlugs, built, args, netType>>

\* update_model, lines 153-161: the update group runs on the feed dict and
\* the new state is taken from its results (any values, one row per row
\* fed).  The delta popped under hub.test_grad is dropped by the code.
RunUpdateGroup(new_state) ==
  /\ pc = "run"
  /\ Len(new_state) = Len(feed)
  /\ stateArray' = new_state
  /\ gradBuf' = IF hub.use_rtrl THEN "updated" ELSE gradBuf
  /\ events' = events \o <<"run_update_group", "pop_state">>
                  \o (IF hub.use_rtrl THEN <<"pop_grad_buffer">> ELSE <<>>)
  /\ batch' = NoBatch
  /\ feed' = None
  /\ state0' = None
  /\ pc' = "idle"
  /\ UNCHANGED <<hub, constructed, master, parentInit, slots, slotsCreated,
                 valRef, placeholders, feedCollection, summaries, trainStep,
                 lossPlugs, built, args, lastOp, netType, evalFlags, error>>

----------------------------------------------------------------------------
(* Public methods *)

\* evaluate_model, line 175
MetricDefinedMutLoss == Activated("loss")

MetricDefined == Activated("metric")

\* predict -> _batch_evaluation: one feed dict with is_training false
Predict(b) ==
  /\ pc = "idle"
  /\ built = "ok"
  /\ EvalBatch(b)
  /\ LET r == GetDefaultFeedDict(Run0, b, FALSE)
     IN  /\ stateArray' = r.stateArray
         /\ gradBuf' = r.gradBuf
         /\ events' = r.events \o <<"run_outputs">>
  /\ lastOp' = "predict"
  /\ evalFlags' = <<b.should_reset_state, b.should_partially_reset_state>>
  /\ error' = "none"
  /\ UNCHANGED <<hub, constructed, master, parentInit, slots, slotsCreated,
                 valRef, placeholders, feedCollection, summaries, trainStep,
                 lossPlugs, built, args, pc, batch, feed, state0, netType>>

\* evaluate_model
Evaluate(b) ==
  /\ pc = "idle"
  /\ constructed
  /\ EvalBatch(b)
  /\ lastOp' = "evaluate_model"
  /\ IF ~MetricDefined
       THEN /\ error' = "AssertionError"
            /\ events' = <<"raise">>
            /\ UNCHANGED <<stateArray, gradBuf, evalFlags>>
       ELSE LET r == GetDefaultFeedDict(Run0, b, FALSE)
            IN  /\ stateArray' = r.stateArray
                /\ gradBuf' = r.gradBuf
                /\ events' = <<"show_status">> \o r.events
                                \o <<"validate_model", "supplement">>
                /\ error' = "none"
                /\ evalFlags' = <<b.should_reset_state,
                                  b.should_partially_reset_state>>
  /\ UNCHANGED <<hub, constructed, master, parentInit, slots, slotsCreated,
                 valRef, placeholders, feedCollection, summaries, trainStep,
                 lossPlugs, built, args, pc, batch, feed, state0, netType>>

----------------------------------------------------------------------------

Next ==
  \/ \E t \in NetTypes : Construct(t)
  \/ \E a \in BuildArgs, act \in BOOLEAN, shape \in Shapes :
       BuildForward(a, act, shape)
  \/ \E lg \in BOOLEAN, rg \in BOOLEAN : BuildLoss(lg, rg)
  \/ BuildMetric
  \/ BuildTrainStep
  \/ \E b \in Batches : UpdateFeedforward(b)
  \/ \E b \in Batches : UpdateBegin(b)
  \/ \E n \in Sizes : \E s \in [1..n -> Vals] : RunUpdateGroup(s)
  \/ \E b \in Batches : Predict(b)
  \/ \E b \in Batches : Evaluate(b)

Spec == Init /\ [][Next]_vars

----------------------------------------------------------------------------
(* Properties *)

Building == pc \in {"build_loss", "build_metric", "build_train"}

\* the recurrent update_model call in progress has built its feed dict and
\* has not run the update group yet
BeforeStep == pc = "run" /\ master = "Recurrent"

\* the buffer a partial reset with the batch's indices and values leaves
PartOf(state, b) ==
  [i \in 1..Len(state) |->
     IF i \in b.reset_batch_indices
       THEN (IF b.values_none THEN 0 ELSE b.reset_values[i])
       ELSE state[i]]

\* C1: in a recurrent update whose batch has should_reset_state, the full
\* reset (reset_buffers with the batch size) comes before the state is read
\* into the feed dict and before the update group runs, and the step is fed
\* the live buffer as the reset left it (with the rows of a partial reset of
\* the same call, which follows the full reset, overwritten: see C8).
C1_ResetBeforeStep ==
  /\ (BeforeStep /\ batch.should_reset_state) =>
       /\ Count(events, "reset_buffers") = 1
       /\ Before(events, "reset_buffers", "get_rnn_dict")
       /\ Count(events, "run_update_group") = 0
       /\ feed = stateArray
       /\ Len(stateArray) = batch.size
       /\ stateArray = IF batch.should_partially_reset_state
                         THEN PartOf(ZeroState(batch.size), batch)
                         ELSE ZeroState(batch.size)
  /\ (lastOp = "update_model" /\ Count(events, "run_update_group") > 0
        /\ Count(events, "reset_buffers") > 0) =>
       /\ Before(events, "reset_buffers", "get_rnn_dict")
       /\ Before(events, "get_rnn_dict", "run_update_group")

\* a full reset of a buffer that held a non-zero row is about to be consumed
C1_Witness ==
  /\ BeforeStep
  /\ batch.should_reset_state
  /\ ~batch.should_partially_reset_state
  /\ state0 # None
  /\ \E i \in 1..Len(state0) : state0[i] # 0
  /\ feed = ZeroState(batch.size)

\* C2: in a recurrent update whose batch has should_partially_reset_state and
\* not should_reset_state, just before the step every row that is not listed
\* in the reset indices holds the value it held when the call began.
C2_PartialResetFrame ==
  (BeforeStep /\ batch.should_partially_reset_state
     /\ ~batch.should_reset_state) =>
    /\ Len(stateArray) = Len(state0)
    /\ \A i \in 1..Len(state0) :
         i \notin batch.reset_batch_indices => stateArray[i] = state0[i]

\* a partial reset changed a listed row and left a non-zero unlisted row
C2_Witness ==
  /\ BeforeStep
  /\ batch.should_partially_reset_state
  /\ ~batch.should_reset_state
  /\ \E i \in batch.reset_batch_indices : stateArray[i] # state0[i]
  /\ \E j \in 1..Len(state0) :
       j \notin batch.reset_batch_indices /\ state0[j] # 0

\* C3: an evaluate_model call on a Predictor whose metric slot is not
\* activated ends with the assertion error, whatever came before; it runs no
\* validation and reports no metric value.
C3_EvaluateNeedsMetric ==
  (lastOp = "evaluate_model" /\ ~Activated("metric")) =>
    /\ error = "AssertionError"
    /\ Count(events, "validate_model") = 0
    /\ Count(events, "supplement") = 0

\* evaluate_model failed on a Predictor built with no metric
C3_Witness ==
  /\ lastOp = "evaluate_model"
  /\ error = "AssertionError"
  /\ built = "ok"
  /\ Activated("loss")
  /\ ~Activated("metric")

\* C4: the loss plugged by a build with loss "cross_entropy" is the loss
\* function of (targets, logits), never of the activated outputs; with any
\* other loss it is the loss function of (targets, outputs); a build whose
\* logits are absent raises and leaves the loss slot unplugged.
C4_CrossEntropyOnLogits ==
  /\ Activated("loss") =>
       /\ slots["loss"][3] = "targets"
       /\ slots["loss"][4] = IF slots["loss"][2] = "cross_entropy"
                               THEN "logits" ELSE "outputs"
  /\ pc \in {"build_metric", "build_train"} => slots["loss"][2] = args.loss
  /\ (lastOp = "build" /\ Len(events) > 1
        /\ events[Len(events)] = "raise"
        /\ events[Len(events) - 1] = "logits_tensor") =>
       (built = "failed" /\ ~Activated("loss"))

\* a cross-entropy build has plugged its loss
C4_Witness ==
  /\ pc = "build_metric"
  /\ args.loss = "cross_entropy"
  /\ slots["loss"][4] = "logits"

\* C5: for both strategy tags the loss slot is unplugged until the loss part
\* of build, is plugged by one plug call there, after the regularization
\* term (if any) was added, and is activated from then on.
C5_LossPluggedOnce ==
  /\ (constructed /\ built = "no" /\ pc \in {"idle", "build_loss"}) =>
       (~Activated("loss") /\ lossPlugs = 0)
  /\ (pc \in {"build_metric", "build_train"} \/ built = "ok") =>
       (Activated("loss") /\ lossPlugs = 1)
  /\ (lastOp = "build" /\ Activated("loss")) =>
       /\ Count(events, "plug_loss") = 1
       /\ Before(events, "loss_function", "plug_loss")
       /\ (slots["loss"][5] = "reg") = (Count(events, "add_reg") = 1)
       /\ Count(events, "add_reg") = 1 =>
            Before(events, "add_reg", "plug_loss")

\* a recurrent Predictor was built with a regularization term
C5_Witness ==
  /\ built = "ok"
  /\ lastOp = "build"
  /\ master = "Recurrent"
  /\ slots["loss"][5] = "reg"

\* C6: a constructor call with an unrecognized net_type raises before the
\* parent constructor runs and before the targets and val_targets slots are
\* created; with a recognized one it succeeds and master is the net_type.
C6_ConstructorChecksTag ==
  /\ lastOp = "construct" =>
       IF netType \in {"Feedforward", "Recurrent"}
         THEN /\ error = "none"
              /\ constructed
              /\ parentInit
              /\ OwnSlots \subseteq slotsCreated
         ELSE /\ error = "TypeError"
              /\ ~constructed
              /\ ~parentInit
              /\ slotsCreated = {}
              /\ master = "None"
  /\ constructed => (master = netType /\ master \in {"Feedforward", "Recurrent"})

\* the constructor refused an unrecognized tag
C6_Witness == lastOp = "construct" /\ netType = "Model" /\ error = "TypeError"

\* C7: a build whose forward part leaves the outputs slot unactivated raises
\* there: no placeholder exists, the targets, loss and metric slots are
\* unplugged and no train step is defined.
C7_OutputsRequired ==
  /\ (Building \/ built = "ok") => Activated("outputs")
  /\ (lastOp = "build" /\ pc = "idle" /\ ~Activated("outputs")) =>
       /\ built = "failed"
       /\ error = "AssertionError"
       /\ placeholders = {}
       /\ feedCollection = {}
       /\ ~Activated("targets")
       /\ ~Activated("loss")
       /\ ~Activated("metric")
       /\ ~trainStep

\* a build failed on the unactivated outputs slot
C7_Witness ==
  lastOp = "build" /\ built = "failed" /\ ~Activated("outputs")

\* C8 as stated: with both flags set the full reset runs and the partial
\* reset is skipped.
C8_PartialSkipped ==
  (BeforeStep /\ batch.should_reset_state
     /\ batch.should_partially_reset_state) =>
    /\ Count(events, "reset_buffers") = 1
    /\ Count(events, "reset_part_buffer") = 0

\* C8: with both flags set the full reset runs and then the partial reset
\* runs too, on the freshly reset buffer, both before the state is read.
C8_FullThenPartial ==
  (BeforeStep /\ batch.should_reset_state
     /\ batch.should_partially_reset_state) =>
    /\ Count(events, "reset_buffers") = 1
    /\ Count(events, "reset_part_buffer") = 1
    /\ Before(events, "reset_buffers", "reset_part_buffer")
    /\ Before(events, "reset_part_buffer", "get_rnn_dict")
    /\ stateArray = PartOf(ZeroState(batch.size), batch)
    /\ feed = stateArray

\* both flags set, and the partial reset wrote a non-zero value after the
\* full reset
C8_Witness ==
  /\ BeforeStep
  /\ batch.should_reset_state
  /\ batch.should_partially_reset_state
  /\ \E i \in batch.reset_batch_indices : stateArray[i] # 0

\* C9: after the metric part of build, with a metric and no val_targets name
\* the attribute _val_targets is the targets slot and only the targets
\* placeholder exists; with a name, the val_targets slot holds a second
\* placeholder of that name with the shape of the outputs; with no metric
\* the val_targets and metric slots are unplugged.
C9_ValTargets ==
  pc = "build_train" =>
    IF args.metric = "None"
      THEN /\ ~Activated("metric")
           /\ ~Activated("val_targets")
           /\ valRef = "val_targets"
           /\ placeholders = {slots["targets"]}
      ELSE /\ Activated("metric")
           /\ slots["metric"][3] = ValTargetsTensor[2]
           /\ IF args.val_targets = "None"
                THEN /\ valRef = "targets"
                     /\ ValTargetsTensor = slots["targets"]
                     /\ placeholders = {slots["targets"]}
                ELSE /\ valRef = "val_targets"
                     /\ slots["val_targets"] =
                          Placeholder(args.val_targets,
                                      ShapeOf(slots["outputs"]))
                     /\ placeholders =
                          {slots["targets"], slots["val_targets"]}
                     /\ slots["val_targets"] # slots["targets"]
                     /\ slots["val_targets"] \in feedCollection

\* a metric was defined on the training targets themselves
C9_Witness ==
  /\ pc = "build_train"
  /\ args.metric # "None"
  /\ args.val_targets = "None"
  /\ valRef = "targets"
  /\ Activated("metric")

\* C10: apart from the construction of a new Predictor, only a recurrent
\* update_model changes the state buffer; predict and evaluate_model (feed
\* dicts built with is_training false) perform no full or partial reset
\* whatever the reset flags of the batch, and a feedforward Predictor has no
\* buffer that anything resets or overwrites.
C10_OnlyTrainingWritesState ==
  [][lastOp' # "construct" =>
       /\ (stateArray' # stateArray \/ gradBuf' # gradBuf) =>
            (master = "Recurrent" /\ lastOp' = "update_model")
       /\ lastOp' \in {"predict", "evaluate_model"} =>
            /\ Count(events', "reset_buffers") = 0
            /\ Count(events', "reset_part_buffer") = 0
       /\ master' = "Feedforward" =>
            /\ stateArray' = None
            /\ Count(events', "reset_buffers") = 0
            /\ Count(events', "reset_part_buffer") = 0]_vars

\* evaluate_model ran on a recurrent Predictor with both reset flags set and
\* a non-zero buffer is still there
C10_Witness ==
  /\ lastOp = "evaluate_model"
  /\ error = "none"
  /\ master = "Recurrent"
  /\ evalFlags = <<TRUE, TRUE>>
  /\ stateArray # None
  /\ \E i \in 1..Len(stateArray) : stateArray[i] # 0

====
